---- MODULE Spec2Model ----
(***************************************************************************)
(* Online-evaluation experiment engine (interleaving.py, power_analysis.py, *)
(* generate_input.py, all_combined.py, click_model_v2.py): team-draft and  *)
(* probabilistic interleaving of two labeled rankings, the click models    *)
(* (learning and click simulation), the win tally of the simulation        *)
(* harness, the sample-size computation and the per-bin summary.           *)
(*                                                                         *)
(* Python lists are sequences; Python indices are kept 0-based in the      *)
(* values (pointers, rank indices, click indices) and shifted by one where *)
(* a sequence is read.  A raised Python exception is the value of "err".   *)
(***************************************************************************)
EXTENDS Integers, Sequences, FiniteSets, TLC

(* ---------------------------------------------------------------- sizes *)

\* all_combined.py: length_interleaving, the length of the generated rankings
length_interleaving == 3
\* all_combined.py: gen_input_pairs(length_interleaving, 2): grades 0 .. n-1
n_grades == 2
\* largest depth (max_interleav) tried by the interleaving specifications
MaxDepth == 4
\* largest number of simulations k
MaxTrials == 2
\* largest sample size kept apart by the model
MaxSample == 3
\* largest number of sample sizes held by the bins together
MaxEntries == 4

(* -------------------------------------------------------------- helpers *)

\* Python: x in lst
InList(x, lst) == \E i \in 1..Len(lst) : lst[i] = x

\* Python: lst.index(x), 0-based; -1 stands for the ValueError of a miss
ListIndex(lst, x) ==
    IF InList(x, lst)
    THEN (CHOOSE i \in 1..Len(lst) :
              lst[i] = x /\ \A j \in 1..(i - 1) : lst[j] # x) - 1
    ELSE -1

\* Python: lst.remove(x) for an x that is in lst (first occurrence)
ListRemove(lst, x) ==
    LET at == ListIndex(lst, x) + 1
    IN  [i \in 1..(Len(lst) - 1) |-> IF i < at THEN lst[i] ELSE lst[i + 1]]

\* Python: list(range(n))
Range(n) == [i \in 1..n |-> i - 1]

(* ------------------------------------------------- ranking-pair generator *)

Grades == 0..(n_grades - 1)

\* gen_input(length, n): every combination of relevance grades of that length
gen_input(length) == [1..length -> Grades]

\* gen_input_pairs(length, n): every pair of two such combinations
gen_input_pairs(length) == gen_input(length) \X gen_input(length)

\* get_conflicts(n, length, ordered): id lists holding each of 1..n once and 0
\* elsewhere; ordered: the positive ids appear in increasing order
get_conflicts(n, length, ordered) ==
    {ids \in [1..length -> 0..n] :
        /\ \A t \in 1..n : Cardinality({i \in 1..length : ids[i] = t}) = 1
        /\ ordered =>
             \A i, j \in 1..length :
                 (i < j /\ ids[i] > 0 /\ ids[j] > 0) => ids[i] < ids[j]}

\* list(zip(grades, ids))
ZipRanking(grades, ids) == [i \in 1..Len(grades) |-> <<grades[i], ids[i]>>]

\* add_conflicts, lines 137-147: a permutation is dropped when a shared id
\* carries two different relevance grades
Conflicting(permutation) ==
    \E i \in 1..Len(permutation[1]), j \in 1..Len(permutation[2]) :
        /\ permutation[1][i][2] > 0
        /\ permutation[1][i][2] = permutation[2][j][2]
        /\ permutation[1][i][1] # permutation[2][j][1]

\* add_conflicts, lines 130-134, for n shared ids
PairsWithConflicts(pair, n) ==
    {<<ZipRanking(pair[1], ids0), ZipRanking(pair[2], ids1)>> :
        ids0 \in get_conflicts(n, Len(pair[1]), TRUE),
        ids1 \in get_conflicts(n, Len(pair[1]), FALSE)}

\* add_conflicts(pair): the labeled ranking pairs of one pair of grade lists
add_conflicts(pair) ==
    {permutation \in
        UNION {PairsWithConflicts(pair, n) : n \in 0..Len(pair[1])} :
        ~Conflicting(permutation)}

\* the ranking pairs the interleaving functions are run on, of every length
\* up to the generated one
RankingPairs ==
    UNION {UNION {add_conflicts(pair) : pair \in gen_input_pairs(length)} :
              length \in 1..length_interleaving}

\* number of distinct documents of a ranking pair: a shared id counts once
NumDistinct(pair) ==
    Len(pair[1]) + Len(pair[2])
        - Cardinality({pair[1][i][2] : i \in 1..Len(pair[1])} \ {0})

(* ------------------------------------------------------------------ state *)

VARIABLES
    pc,               \* position of the running function
    err,              \* the exception that ended the run, "none" otherwise
    caller,           \* who called the interleaving function
    interleaving_func,\* "td_interleaving" or "prob_interleaving"
    ranking_pair,     \* <<ranking_p, ranking_e>>, entries <<relevance, duplicate id>>
    max_interleav,    \* requested depth of the interleaved list
    il,               \* locals of the running interleaving function (a record
                      \* under the source's names) and the history kept for the
                      \* properties: src, rounds, p_priority, side, drawn
    \* interleaving_simulation and compute_sample_size
    k,                \* number of simulations
    trial,            \* completed iterations of "for _ in range(k)"
    wins,             \* <<wins[0], wins[1]>>
    search_results,   \* the interleaved list of the current trial
    clicked,          \* the click indices of the current trial
    n_E_click,
    n_P_click,
    p,                \* <<numerator, denominator>> of the returned proportion
    sample_size,      \* compute_sample_size's result
    outcomes,         \* history: [E, P, T], the trials so far that E won, that
                      \* P won and that were tied
    \* process_bins
    bins,             \* the list of bins, sorted and stripped in place
    bins_in,          \* history: the list of bins as it was passed
    out,              \* the list of summaries built so far
    bin_index,        \* index of the next bin of "for cur in bins"
    \* click_model_v2.py
    self,             \* the click model: class, rho, alphas, gammas
    database,         \* the log passed to learn
    lrn,              \* PBM.learn's arguments and locals, and the history
                      \* passes: the passes over the log made so far
    draws,            \* the values random() returns where a parameter is
                      \* initialised: per rank for gammas, per document for alphas
    answer            \* the last call of get_p or get_clicks and its result

ilvars == <<caller, interleaving_func, ranking_pair, max_interleav, il>>

simvars == <<k, trial, wins, search_results, clicked, n_E_click, n_P_click,
             p, sample_size, outcomes>>

binvars == <<bins, bins_in, out, bin_index>>

cmvars == <<self, database, lrn, draws, answer>>

vars == <<pc, err, ilvars, simvars, binvars, cmvars>>

\* the values of the variables of a function that is not running
NoValue == "unset"

\* the locals of an interleaving function that is not running
NoLocals == [running |-> FALSE]

ILIdle ==
    /\ caller = NoValue /\ interleaving_func = NoValue
    /\ ranking_pair = NoValue /\ max_interleav = 0 /\ il = NoLocals

SimIdle ==
    /\ k = 0 /\ trial = 0 /\ wins = <<0, 0>>
    /\ search_results = NoValue /\ clicked = NoValue
    /\ n_E_click = 0 /\ n_P_click = 0 /\ p = NoValue
    /\ sample_size = NoValue
    /\ outcomes = [E |-> 0, P |-> 0, T |-> 0]

BinsIdle == bins = <<>> /\ bins_in = <<>> /\ out = <<>> /\ bin_index = 0

\* no click model has been constructed, none has been called
NoModel == [class |-> "none"]
NoAnswer == [op |-> "none"]

CMIdle ==
    /\ self = NoModel /\ database = <<>> /\ lrn = NoLocals
    /\ draws = NoLocals /\ answer = NoAnswer

ranking_p == ranking_pair[1]
ranking_e == ranking_pair[2]

(* ------------------------------------------------------- td_interleaving *)

\* lines 23-30: the locals before the first round.  src lists, per emitted
\* entry, <<credit, rank index, duplicate id>> of the document it came from.
TDLocals ==
    [interleaved |-> <<>>, p_team |-> 0, e_team |-> 0,
     p_pointer |-> 0, e_pointer |-> 0, found_duplicates |-> <<>>,
     src |-> <<>>, rounds |-> 0, p_priority |-> -1, side |-> -1,
     err |-> "none"]

\* a team-draft that never skips a document
TDSkipsNone(duplicate_id, found_duplicates) == FALSE

\* a team-draft that also skips the documents without a duplicate
TDSkipsUntagged(duplicate_id, found_duplicates) ==
    duplicate_id = 0 \/ InList(duplicate_id, found_duplicates)

\* lines 44 and 64: "duplicate_id not in found_duplicates" fails, the document
\* is skipped
TDSkips(duplicate_id, found_duplicates) == InList(duplicate_id, found_duplicates)

\* lines 39-48 and 59-68: the inner "while not new_result" of one side, from
\* its pointer.  Reading ranking[pointer] past the end is an IndexError.
RECURSIVE TDScan(_, _, _, _)
TDScan(ranking, pointer, found_duplicates, limit) ==
    IF pointer >= Len(ranking)
    THEN [pointer |-> pointer, new_result |-> FALSE, relevance |-> 0,
          duplicate_id |-> 0, index |-> pointer, err |-> "IndexError"]
    ELSE LET top_result == ranking[pointer + 1]
         IN  IF ~TDSkips(top_result[2], found_duplicates)
             THEN [pointer |-> pointer + 1, new_result |-> TRUE,
                   relevance |-> top_result[1], duplicate_id |-> top_result[2],
                   index |-> pointer, err |-> "none"]
             ELSE IF pointer + 1 = limit
             THEN [pointer |-> pointer + 1, new_result |-> FALSE,
                   relevance |-> top_result[1], duplicate_id |-> top_result[2],
                   index |-> pointer, err |-> "none"]
             ELSE TDScan(ranking, pointer + 1, found_duplicates, limit)

\* a choice of the picking side by the coin alone
TDPicksByCoin(f, p_priority) == p_priority = 1

\* a choice of the side that has more picks, the coin deciding a tie
TDPicksMoreFirst(f, p_priority) ==
    (f.p_team > f.e_team) \/ (f.p_team = f.e_team /\ p_priority = 1)

\* line 37: P picks when it has fewer picks, or on a tie when the coin is 1
TDPicksP(f, p_priority) ==
    (f.p_team < f.e_team) \/ (f.p_team = f.e_team /\ p_priority = 1)

\* an id recorded whatever its value
TDRecordAny(found_duplicates, duplicate_id) ==
    Append(found_duplicates, duplicate_id)

\* lines 55-56 and 75-76: only a positive id is recorded
TDRecord(found_duplicates, duplicate_id) ==
    IF duplicate_id > 0
    THEN Append(found_duplicates, duplicate_id)
    ELSE found_duplicates

\* an emission credited to the side that did not pick
TDEmitForOther(f, s, credit) ==
    [f EXCEPT
        !.interleaved = Append(@, <<s.relevance, 1 - credit>>),
        !.p_team = IF credit = 0 THEN @ + 1 ELSE @,
        !.e_team = IF credit = 1 THEN @ + 1 ELSE @,
        !.found_duplicates = TDRecord(@, s.duplicate_id),
        !.src = Append(@, <<credit, s.index, s.duplicate_id>>)]

\* lines 50-56 and 70-76: the entry is appended with the credit of the side,
\* the side's count grows, a positive id is recorded
TDEmit(f, s, credit) ==
    [f EXCEPT
        !.interleaved = Append(@, <<s.relevance, credit>>),
        !.p_team = IF credit = 0 THEN @ + 1 ELSE @,
        !.e_team = IF credit = 1 THEN @ + 1 ELSE @,
        !.found_duplicates = TDRecord(@, s.duplicate_id),
        !.src = Append(@, <<credit, s.index, s.duplicate_id>>)]

\* lines 35-76: one round of the outer loop with the coin p_priority
TDStep(pair, f, p_priority) ==
    LET limit == Len(pair[1])
        isP == TDPicksP(f, p_priority)
        s == IF isP
             THEN TDScan(pair[1], f.p_pointer, f.found_duplicates, limit)
             ELSE TDScan(pair[2], f.e_pointer, f.found_duplicates, limit)
        g == [f EXCEPT !.rounds = @ + 1, !.p_priority = p_priority,
                       !.side = IF isP THEN 0 ELSE 1,
                       !.p_pointer = IF isP THEN s.pointer ELSE @,
                       !.e_pointer = IF isP THEN @ ELSE s.pointer]
    IN  IF s.err # "none" THEN [g EXCEPT !.err = s.err]
        ELSE IF s.new_result THEN TDEmit(g, s, IF isP THEN 0 ELSE 1)
        ELSE g

\* line 33: the loop condition
TDContinues(f, depth) == Len(f.interleaved) < depth

\* td_interleaving(ranking_pair, max_interleav) called directly
TDInit ==
    /\ ranking_pair \in RankingPairs
    /\ max_interleav \in 1..MaxDepth
    /\ interleaving_func = "td_interleaving"
    /\ caller = "main"
    /\ il = TDLocals
    /\ pc = "td_loop"
    /\ err = "none"
    /\ SimIdle /\ BinsIdle /\ CMIdle

TDRound ==
    /\ pc = "td_loop"
    /\ TDContinues(il, max_interleav)
    /\ \E p_priority \in {0, 1} :
           il' = TDStep(ranking_pair, il, p_priority)
    /\ pc' = IF il'.err = "none" THEN "td_loop" ELSE "error"
    /\ err' = il'.err
    /\ UNCHANGED <<caller, interleaving_func, ranking_pair, max_interleav>>
    /\ UNCHANGED <<simvars, binvars, cmvars>>

\* line 78: to the caller; interleaving_simulation binds the list to
\* search_results (power_analysis.py line 79)
TDReturn ==
    /\ pc = "td_loop"
    /\ ~TDContinues(il, max_interleav)
    /\ IF caller = "main"
       THEN pc' = "done" /\ UNCHANGED <<il, search_results>>
       ELSE pc' = "sim_clicks" /\ search_results' = il.interleaved
            /\ il' = NoLocals
    /\ UNCHANGED <<err, caller, interleaving_func, ranking_pair, max_interleav>>
    /\ UNCHANGED <<k, trial, wins, clicked, n_E_click, n_P_click, p,
                   sample_size, outcomes>>
    /\ UNCHANGED <<binvars, cmvars>>

(* ------------------------------------------- get_softmax, prob_interleaving *)

\* prob_interleaving's default tau
tau == 3

RECURSIVE Pow(_, _)
Pow(b, e) == IF e = 0 THEN 1 ELSE b * Pow(b, e - 1)

RECURSIVE SeqSum(_)
SeqSum(q) == IF q = <<>> THEN 0 ELSE Head(q) + SeqSum(Tail(q))

RECURSIVE SeqProd(_)
SeqProd(q) == IF q = <<>> THEN 1 ELSE Head(q) * SeqProd(Tail(q))

\* lines 97-111: the probabilities (1/rank^tau) / sum(1/rank^tau) as exact
\* fractions <<numerator, denominator>>, both scaled by the product of all
\* rank^tau
get_softmax(ranking_indices, t) ==
    LET powers == [i \in 1..Len(ranking_indices) |->
                      Pow(ranking_indices[i] + 1, t)]
        scale == SeqProd(powers)
        numerator_list == [i \in 1..Len(powers) |-> scale \div powers[i]]
        denominator == SeqSum(numerator_list)
    IN  [i \in 1..Len(numerator_list) |-> <<numerator_list[i], denominator>>]

\* np.random.choice(a, 1, p=p)[0] for a non-empty a: the entries of positive
\* probability
RandomChoice(a, probs) == {a[i] : i \in {j \in 1..Len(a) : probs[j][1] > 0}}

\* lines 131-139
ProbLocals(pair) ==
    [interleaved |-> <<>>, p_indices |-> Range(Len(pair[1])),
     e_indices |-> Range(Len(pair[1])), found_duplicates |-> <<>>,
     src |-> <<>>, rounds |-> 0, p_priority |-> -1, side |-> -1,
     drawn |-> <<>>, err |-> "none"]

\* a counterpart looked up at the rank index of the drawn document
SameRankIndex(ranking, result, doc_index) == doc_index

\* lines 161 and 178: ranking.index(result), the rank index of the counterpart
\* in the other ranking
DuplicateIndex(ranking, result, doc_index) == ListIndex(ranking, result)

\* a choice of the drawing side by the coin alone
ProbDrawsByCoin(f, p_priority) == p_priority = 1

\* line 146: the draw is made from P
ProbDrawsFromP(f, p_priority) ==
    (p_priority = 1 /\ Len(f.p_indices) > 0) \/ Len(f.e_indices) = 0

\* a counterpart left among the remaining positions
KeepCounterpart(indices, duplicate_index) == indices

\* lines 162 and 179: the counterpart's rank index leaves the other side's
\* list
RemoveCounterpart(indices, duplicate_index) ==
    ListRemove(indices, duplicate_index)

\* lines 149-162 (fromP) and 166-179: the drawn index leaves the side's list;
\* an id-0 document is emitted; a document with a fresh positive id is emitted,
\* its id recorded and its counterpart's index removed from the other side's
\* list; a document whose id is already recorded is not emitted.
\* drawn lists the <<side, rank index>> of every draw.
ProbDraw(pair, f, fromP, doc_index) ==
    LET credit == IF fromP THEN 0 ELSE 1
        own == IF fromP THEN pair[1] ELSE pair[2]
        other == IF fromP THEN pair[2] ELSE pair[1]
        result == own[doc_index + 1]
        relevance == result[1]
        duplicate_id == result[2]
        g == [f EXCEPT
                !.p_indices = IF fromP THEN ListRemove(@, doc_index) ELSE @,
                !.e_indices = IF fromP THEN @ ELSE ListRemove(@, doc_index),
                !.drawn = Append(@, <<credit, doc_index>>)]
        emitted == [g EXCEPT
                !.interleaved = Append(@, <<relevance, credit>>),
                !.src = Append(@, <<credit, doc_index, duplicate_id>>)]
        duplicate_index == DuplicateIndex(other, result, doc_index)
        other_indices == IF fromP THEN g.e_indices ELSE g.p_indices
    IN  IF duplicate_id = 0 THEN emitted
        ELSE IF duplicate_id > 0 /\ ~InList(duplicate_id, f.found_duplicates)
        THEN IF duplicate_index < 0 \/ ~InList(duplicate_index, other_indices)
             THEN [emitted EXCEPT
                     !.found_duplicates = Append(@, duplicate_id),
                     !.err = "ValueError"]
             ELSE [emitted EXCEPT
                     !.found_duplicates = Append(@, duplicate_id),
                     !.e_indices =
                         IF fromP THEN RemoveCounterpart(@, duplicate_index)
                         ELSE @,
                     !.p_indices =
                         IF fromP THEN @
                         ELSE RemoveCounterpart(@, duplicate_index)]
        ELSE g

\* lines 144-179: the frames one round of the outer loop can lead to with the
\* coin p_priority.  np.random.choice on an empty list is a ValueError.
ProbStep(pair, f, p_priority) ==
    LET fromP == ProbDrawsFromP(f, p_priority)
        indices == IF fromP THEN f.p_indices ELSE f.e_indices
        g == [f EXCEPT !.rounds = @ + 1, !.p_priority = p_priority,
                       !.side = IF fromP THEN 0 ELSE 1]
    IN  IF Len(indices) = 0
        THEN {[g EXCEPT !.err = "ValueError"]}
        ELSE {ProbDraw(pair, g, fromP, doc_index) :
                 doc_index \in RandomChoice(indices, get_softmax(indices, tau))}

\* line 142: the loop condition
ProbContinues(f, depth) == Len(f.interleaved) < depth

\* prob_interleaving(ranking_pair, max_interleav) called directly
ProbInit ==
    /\ ranking_pair \in RankingPairs
    /\ max_interleav \in 1..MaxDepth
    /\ interleaving_func = "prob_interleaving"
    /\ caller = "main"
    /\ il = ProbLocals(ranking_pair)
    /\ pc = "prob_loop"
    /\ err = "none"
    /\ SimIdle /\ BinsIdle /\ CMIdle

ProbRound ==
    /\ pc = "prob_loop"
    /\ ProbContinues(il, max_interleav)
    /\ \E p_priority \in {0, 1} :
           il' \in ProbStep(ranking_pair, il, p_priority)
    /\ pc' = IF il'.err = "none" THEN "prob_loop" ELSE "error"
    /\ err' = il'.err
    /\ UNCHANGED <<caller, interleaving_func, ranking_pair, max_interleav>>
    /\ UNCHANGED <<simvars, binvars, cmvars>>

\* line 181
ProbReturn ==
    /\ pc = "prob_loop"
    /\ ~ProbContinues(il, max_interleav)
    /\ IF caller = "main"
       THEN pc' = "done" /\ UNCHANGED <<il, search_results>>
       ELSE pc' = "sim_clicks" /\ search_results' = il.interleaved
            /\ il' = NoLocals
    /\ UNCHANGED <<err, caller, interleaving_func, ranking_pair, max_interleav>>
    /\ UNCHANGED <<k, trial, wins, clicked, n_E_click, n_P_click, p,
                   sample_size, outcomes>>
    /\ UNCHANGED <<binvars, cmvars>>

(* ------------------------------------------------------- click_model_v2.py *)

\* a float is kept as a whole number of units of 1 / Precision; every
\* multiplication and division is rounded to the nearest unit
Precision == 1000
\* longest log passed to learn
MaxLog == 3
\* most passes of PBM.learn over the log that are followed
MaxPasses == 4

\* the float of the integer n
Float(n) == n * Precision

\* a * b and a / b of two non-negative floats, b > 0
FMul(a, b) == (a * b + Precision \div 2) \div Precision
FDiv(a, b) == (a * Precision + b \div 2) \div b

\* Python: min(a, b)
Min(a, b) == IF a < b THEN a ELSE b

\* an empty dict
EmptyDict == [x \in {} |-> 0]

\* read_yandex, lines 28-36: a query item carries the shown documents, a click
\* item does not
Sessions == {1, 2}
Docs == {1, 2}
QueryItems ==
    {[id |-> s, a |-> "q", a_id |-> 7, urls |-> u] :
        s \in Sessions, u \in {<<1>>, <<1, 2>>}}
ClickItems == {[id |-> s, a |-> "c", a_id |-> d] : s \in Sessions, d \in Docs}

\* the logs passed to learn: at most MaxLog items, the sessions one after the
\* other
Databases ==
    {db \in UNION {[1..len -> QueryItems \cup ClickItems] : len \in 0..MaxLog} :
        \A i \in 1..(Len(db) - 1) : db[i].id <= db[i + 1].id}

\* the values of random(), a float of [0, 1), used where a parameter is
\* initialised
RandomValues == {Precision \div 4, Precision \div 2}

\* the relevance lists passed to get_p and get_clicks
GradeLists == {<<>>, <<1>>, <<0, 1>>, <<1, 0, 0>>}

(* RCM *)

\* RCM.__init__, line 55: rho = random()
RCM_init(rho) == [class |-> "RCM", rho |-> rho]

\* RCM.learn, lines 69-74
RECURSIVE n_docs(_)
n_docs(db) ==
    IF db = <<>> THEN 0
    ELSE n_docs(SubSeq(db, 1, Len(db) - 1))
             + (IF db[Len(db)].a = "q" THEN Len(db[Len(db)].urls) ELSE 0)

n_clicks(db) == Len(SelectSeq(db, LAMBDA item : item.a # "q"))

\* RCM.learn, line 75: rho = n_clicks / float(n_docs)
RCM_learn(model, db) ==
    IF n_docs(db) = 0
    THEN [self |-> model, err |-> "ZeroDivisionError"]
    ELSE [self |-> [model EXCEPT
                       !.rho = FDiv(Float(n_clicks(db)), Float(n_docs(db)))],
          err |-> "none"]

\* RCM.get_p, lines 93-94
RCM_get_p(model, relevance_grades) ==
    [i \in 1..Len(relevance_grades) |-> model.rho]

(* PBM *)

\* PBM.__init__, lines 141-142
PBM_init == [class |-> "PBM", alphas |-> EmptyDict, gammas |-> <<>>]

\* _learn, line 239
empty_q == [id |-> -1, a |-> "q", a_id |-> -1, urls |-> <<>>]

\* update, lines 189-190: "while len(self.gammas) < gamma_length:
\* self.gammas.append(random())"
RECURSIVE ExtendGammas(_, _)
ExtendGammas(gammas, gamma_length) ==
    IF Len(gammas) >= gamma_length THEN gammas
    ELSE ExtendGammas(Append(gammas, draws.gamma[Len(gammas) + 1]),
                      gamma_length)

\* update, lines 191-192: "while len(gamma_sum) < gamma_length:
\* gamma_sum.append(0)"
RECURSIVE ExtendSums(_, _)
ExtendSums(gamma_sum, gamma_length) ==
    IF Len(gamma_sum) >= gamma_length THEN gamma_sum
    ELSE ExtendSums(Append(gamma_sum, 0), gamma_length)

\* update, lines 196-199: dict.get(key) == None, then dict[key] = value
SetDefault(dict, key, value) ==
    IF key \in DOMAIN dict THEN dict ELSE (key :> value) @@ dict

\* the value of an expression, computed once: the element of the one-element
\* set that holds it
The(S) == CHOOSE x \in S : TRUE

\* update, lines 194-211: the body of "for r, _id in enumerate(q_urls)" at
\* rank r.  st holds self.alphas, self.gammas and the locals of _learn.
RankStep(st, q_urls, q_id, r) ==
    LET _id == q_urls[r + 1]
        uq == <<_id, q_id>>
        alphas == SetDefault(st.alphas, uq, draws.alpha[_id])
        alpha_sum == SetDefault(st.alpha_sum, uq, [sum |-> 0, length |-> 0])
        gamma == st.gammas[r + 1]
        alpha == alphas[uq]
        rest == Float(1) - FMul(gamma, alpha)
        was_clicked == InList(_id, st.clicks)
        alpha_term == IF was_clicked THEN Float(1)
                      ELSE FDiv(FMul(Float(1) - gamma, alpha), rest)
        gamma_term == IF was_clicked THEN Float(1)
                      ELSE FDiv(FMul(gamma, Float(1) - alpha), rest)
    IN  IF ~was_clicked /\ rest = 0
        THEN [st EXCEPT !.alphas = alphas, !.alpha_sum = alpha_sum,
                        !.err = "ZeroDivisionError"]
        ELSE [st EXCEPT
                !.alphas = alphas,
                !.alpha_sum =
                    [alpha_sum EXCEPT
                        ![uq] = [sum |-> @.sum + alpha_term,
                                 length |-> @.length + 1]],
                !.gamma_sum = [@ EXCEPT ![r + 1] = @ + gamma_term]]

\* update, lines 193-211: "for r, _id in enumerate(q_urls)" from rank r on,
\* ended by an exception
RECURSIVE UpdateRanks(_, _, _, _)
UpdateRanks(st, q_urls, q_id, r) ==
    IF r >= Len(q_urls) \/ st.err # "none" THEN st
    ELSE The({UpdateRanks(next, q_urls, q_id, r + 1) :
                 next \in {RankStep(st, q_urls, q_id, r)}})

\* PBM.update, lines 182-217.  prev_q['urls'] of a click item is a KeyError.
update(st, item, n) ==
    IF item.a = "q"
    THEN IF st.prev_q.a # "q" THEN [st EXCEPT !.err = "KeyError"]
         ELSE
           LET urls == st.prev_q.urls
               q_urls == IF n >= 0 THEN SubSeq(urls, 1, Min(n, Len(urls)))
                         ELSE urls
               gamma_length == Len(q_urls)
               extended ==
                   [st EXCEPT
                      !.gammas = ExtendGammas(@, gamma_length),
                      !.gamma_sum = ExtendSums(@, gamma_length)]
           IN  The({IF summed.err # "none" THEN summed
                    ELSE [summed EXCEPT !.prev_q = item, !.clicks = <<>>] :
                        summed \in {UpdateRanks(extended, q_urls,
                                                st.prev_q.a_id, 0)}})
    ELSE [st EXCEPT !.clicks = Append(@, item.a_id)]

\* _learn, lines 249-256: the body of the loop for one item
ItemStep(st, item, n) ==
    LET counted == IF item.a = "q"
                   THEN [st EXCEPT !.n_queries = @ + 1] ELSE st
    IN  The({IF closed.err # "none" THEN closed
             ELSE update(closed, item, n) :
                 closed \in
                     {IF counted.session_id # item.id
                      THEN [update(counted, empty_q, n) EXCEPT
                               !.session_id = item.id]
                      ELSE counted}})

\* _learn, lines 248-256: "for item in database[1:] + [empty_q]" from the
\* item at index i of that list on, ended by an exception
RECURSIVE LearnItems(_, _, _, _)
LearnItems(st, items, i, n) ==
    IF i >= Len(items) \/ st.err # "none" THEN st
    ELSE The({LearnItems(next, items, i + 1, n) :
                 next \in {ItemStep(st, items[i + 1], n)}})

\* a divisor that is the number of queries alone
QueriesOnly(n_queries) == n_queries

\* _learn, line 263: the divisor n_queries + 1
QueriesPlusOne(n_queries) == n_queries + 1

\* _learn, lines 233-244: the locals before the loop
LearnLocals(model, prev_q) ==
    [alphas |-> model.alphas, gammas |-> model.gammas,
     alpha_sum |-> EmptyDict, gamma_sum |-> <<>>,
     prev_q |-> prev_q, session_id |-> prev_q.id,
     clicks |-> <<>>,
     n_queries |-> IF prev_q.a # "q" THEN -1 ELSE 0,
     err |-> "none"]

\* _learn, lines 259-263: the parameters are set from the sums st of the loop;
\* an exception of the loop leaves the parameters drawn so far
SetParameters(model, st) ==
    LET divisor == QueriesPlusOne(st.n_queries)
    IN  IF st.err # "none"
        THEN [self |-> [model EXCEPT !.alphas = st.alphas,
                                     !.gammas = st.gammas],
              err |-> st.err]
        ELSE IF Len(st.gamma_sum) > 0 /\ divisor = 0
        THEN [self |-> [model EXCEPT !.alphas = st.alphas,
                                     !.gammas = st.gammas],
              err |-> "ZeroDivisionError"]
        ELSE [self |->
                [model EXCEPT
                   !.alphas =
                       [uq \in DOMAIN st.alphas |->
                           IF uq \in DOMAIN st.alpha_sum
                           THEN FDiv(st.alpha_sum[uq].sum + Float(1),
                                     Float(st.alpha_sum[uq].length + 2))
                           ELSE st.alphas[uq]],
                   !.gammas =
                       [r \in 1..Len(st.gammas) |->
                           IF r <= Len(st.gamma_sum)
                           THEN FDiv(st.gamma_sum[r] + Float(1),
                                     Float(divisor))
                           ELSE st.gammas[r]]],
              err |-> "none"]

\* PBM._learn, lines 233-265: one pass over the log; database[0] of an empty
\* log is an IndexError
_learn(model, db, n) ==
    IF db = <<>> THEN [self |-> model, err |-> "IndexError"]
    ELSE The({SetParameters(model, st) :
                 st \in {LearnItems(LearnLocals(model, db[1]),
                                    Tail(db) \o <<empty_q>>, 0, n)}})

\* round(gamma, n_decimals) as a whole number of units of 10^-n_decimals,
\* a tie going to the even neighbour
Round(gamma, n_decimals) ==
    LET scaled == gamma * Pow(10, n_decimals)
        whole == scaled \div Precision
        part == scaled % Precision
    IN  IF 2 * part < Precision THEN whole
        ELSE IF 2 * part > Precision THEN whole + 1
        ELSE IF whole % 2 = 0 THEN whole ELSE whole + 1

\* a test that any number of passes is enough
AnyPasses(prev_gammas, n_consecutive) == TRUE

\* learn, line 293
EnoughPasses(prev_gammas, n_consecutive) == Len(prev_gammas) >= n_consecutive

\* learn, lines 294-295: "while len(prev_gammas) > n_consecutive:
\* prev_gammas.pop(0)"
RECURSIVE PopOldest(_, _)
PopOldest(prev_gammas, n_consecutive) ==
    IF Len(prev_gammas) > n_consecutive
    THEN PopOldest(Tail(prev_gammas), n_consecutive)
    ELSE prev_gammas

\* learn, lines 296-303: no two neighbours of prev_gammas differ at a rank
\* that both have (zip stops at the shorter one)
Unchanged(prev_gammas) ==
    \A i \in 1..(Len(prev_gammas) - 1) :
        \A r \in 1..Min(Len(prev_gammas[i]), Len(prev_gammas[i + 1])) :
            prev_gammas[i][r] - prev_gammas[i + 1][r] = 0

\* learn, lines 291-303: after the pass, the rounded gammas are appended and
\* convergence is decided.  l holds the arguments and locals of learn; history
\* lists the rounded gammas of every pass.
CheckConvergence(pass, l) ==
    LET rounded == [r \in 1..Len(pass.self.gammas) |->
                       Round(pass.self.gammas[r], l.n_decimals)]
        appended == Append(l.prev_gammas, rounded)
        checked == EnoughPasses(appended, l.n_consecutive)
        kept == IF checked THEN PopOldest(appended, l.n_consecutive)
                ELSE appended
    IN  IF pass.err # "none"
        THEN [self |-> pass.self, lrn |-> l, err |-> pass.err]
        ELSE [self |-> pass.self,
              lrn |-> [l EXCEPT !.prev_gammas = kept,
                                !.convergence = checked /\ Unchanged(kept),
                                !.passes = @ + 1,
                                !.history = Append(@, rounded)],
              err |-> "none"]

\* PBM.learn, lines 290-303: one iteration of "while convergence == False"
LearnIteration(model, db, l) ==
    The({CheckConvergence(pass, l) :
            pass \in {_learn(model, db, l.n_rank)}})

\* PBM.get_p's default epsilon, 1e-1
epsilon == Precision \div 10

\* a probability for every learned rank, whatever the number of documents
PBM_get_p_AllRanks(model, relevance_grades) ==
    [i \in 1..Len(model.gammas) |->
        IF i <= Len(relevance_grades) /\ relevance_grades[i] # 0
        THEN FMul(model.gammas[i], Float(1) - epsilon)
        ELSE FMul(model.gammas[i], epsilon)]

\* PBM.get_p, lines 324-330
PBM_get_p(model, relevance_grades) ==
    [i \in 1..Min(Len(model.gammas), Len(relevance_grades)) |->
        IF relevance_grades[i] = 0
        THEN FMul(model.gammas[i], epsilon)
        ELSE FMul(model.gammas[i], Float(1) - epsilon)]

\* get_p of either class
get_p(model, relevance_grades) ==
    IF model.class = "RCM" THEN RCM_get_p(model, relevance_grades)
    ELSE PBM_get_p(model, relevance_grades)

(* get_clicks of RCM and PBM *)

\* lines 115 and 354: "random() <= p[i]" with random() any float of [0, 1):
\* the decisions possible at a position of click probability p_i
Decisions(p_i) ==
    {d \in BOOLEAN : (d => p_i >= 0) /\ (~d => p_i < Float(1))}

\* lines 114-116 and 353-355: "for i in range(len(p))" from position i on, out
\* being the clicks collected before it
RECURSIVE ForPositions(_, _, _)
ForPositions(p_list, i, clicks) ==
    IF i >= Len(p_list) THEN {clicks}
    ELSE UNION {ForPositions(p_list, i + 1,
                             IF d THEN Append(clicks, i) ELSE clicks) :
                    d \in Decisions(p_list[i + 1])}

\* a click simulation that is repeated until something was clicked
ReturnedWhenClicked(results) == results \ {<<>>}

\* lines 117 and 356: "return out", whatever was collected
Returned(results) == results

\* RCM.get_clicks, lines 112-117, and PBM.get_clicks, lines 351-356: the
\* possible results
Clicks(model, relevance_grades) ==
    Returned(ForPositions(get_p(model, relevance_grades), 0, <<>>))

(* the click models as they are used: constructed, trained, called *)

\* the arguments of PBM.learn: n_decimals, n_consecutive, n_rank
LearnArgs ==
    {[n_decimals |-> 1, n_consecutive |-> 2, n_rank |-> -1],
     [n_decimals |-> 0, n_consecutive |-> 1, n_rank |-> -1],
     [n_decimals |-> 1, n_consecutive |-> 1, n_rank |-> 1],
     [n_decimals |-> 2, n_consecutive |-> 2, n_rank |-> 1]}

\* cm.RCM() or cm.PBM() and the log read for it
CMInit ==
    /\ database \in Databases
    /\ \/ /\ \E rho \in RandomValues : self = RCM_init(rho)
          /\ draws = NoLocals
       \/ /\ self = PBM_init
          /\ \E gamma \in [1..2 -> RandomValues], alpha \in [Docs -> RandomValues] :
                 draws = [gamma |-> gamma, alpha |-> alpha]
    /\ lrn = NoLocals
    /\ answer = NoAnswer
    /\ pc = "cm_new"
    /\ err = "none"
    /\ ILIdle /\ SimIdle /\ BinsIdle

\* RCM.learn(database)
RCMLearn ==
    /\ pc = "cm_new"
    /\ self.class = "RCM"
    /\ LET r == RCM_learn(self, database)
       IN  /\ self' = r.self
           /\ err' = r.err
           /\ pc' = IF r.err = "none" THEN "cm_trained" ELSE "error"
    /\ UNCHANGED <<database, lrn, draws, answer>>
    /\ UNCHANGED <<ilvars, simvars, binvars>>

\* PBM.learn(database, n_decimals, n_consecutive, n_rank), lines 287-288
PBMLearn ==
    /\ pc = "cm_new"
    /\ self.class = "PBM"
    /\ \E args \in LearnArgs :
           lrn' = [n_decimals |-> args.n_decimals,
                   n_consecutive |-> args.n_consecutive,
                   n_rank |-> args.n_rank,
                   prev_gammas |-> <<>>, convergence |-> FALSE,
                   passes |-> 0, history |-> <<>>]
    /\ pc' = "cm_learning"
    /\ UNCHANGED <<err, self, database, draws, answer>>
    /\ UNCHANGED <<ilvars, simvars, binvars>>

\* PBM.learn, lines 289-304: one iteration of the loop; the loop is left, and
\* learn returns, when convergence is True
PBMLearnPass ==
    /\ pc = "cm_learning"
    /\ lrn.convergence = FALSE
    /\ lrn.passes < MaxPasses
    /\ \E r \in {LearnIteration(self, database, lrn)} :
           /\ self' = r.self
           /\ lrn' = r.lrn
           /\ err' = r.err
           /\ pc' = IF r.err # "none" THEN "error"
                    ELSE IF r.lrn.convergence THEN "cm_trained"
                    ELSE "cm_learning"
    /\ UNCHANGED <<database, draws, answer>>
    /\ UNCHANGED <<ilvars, simvars, binvars>>

\* get_p(relevance_grades) on a model that is new or trained
GetP ==
    /\ pc \in {"cm_new", "cm_trained"}
    /\ \E relevance_grades \in GradeLists :
           answer' = [op |-> "get_p", relevance_grades |-> relevance_grades,
                      p |-> get_p(self, relevance_grades),
                      out |-> get_p(self, relevance_grades),
                      trained |-> pc = "cm_trained"]
    /\ pc' = "cm_answered"
    /\ UNCHANGED <<err, self, database, lrn, draws>>
    /\ UNCHANGED <<ilvars, simvars, binvars>>

\* get_clicks(relevance_grades) on a model that is new or trained
GetClicks ==
    /\ pc \in {"cm_new", "cm_trained"}
    /\ \E relevance_grades \in GradeLists :
           \E clicks \in Clicks(self, relevance_grades) :
               answer' = [op |-> "get_clicks",
                          relevance_grades |-> relevance_grades,
                          p |-> get_p(self, relevance_grades),
                          out |-> clicks,
                          trained |-> pc = "cm_trained"]
    /\ pc' = "cm_answered"
    /\ UNCHANGED <<err, self, database, lrn, draws>>
    /\ UNCHANGED <<ilvars, simvars, binvars>>

(* ------------------------------------------ click model used by the harness *)

\* the sorted list of a set of indices
RECURSIVE SortedList(_)
SortedList(S) ==
    IF S = {} THEN <<>>
    ELSE LET m == CHOOSE x \in S : \A y \in S : x <= y
         IN  <<m>> \o SortedList(S \ {m})

\* click_model_v2.py, RCM.get_clicks: one decision per position i of
\* range(len(p)), in increasing order of i; len(p) = len(relevance_grades).
\* Every combination of decisions is a possible result.
get_clicks(relevance_grades) ==
    {SortedList(S) : S \in SUBSET (0..(Len(relevance_grades) - 1))}

(* ------------------------------------------------- interleaving_simulation *)

\* grade pairs of gen_input_pairs(3, 2) that all_combined.py passes on
\* (0.05 <= dERR < 0.95): P = [0,1,0], E = [1,0,0] and P = [1,0,0], E = [1,1,0]
SimInputs ==
    {<< <<0, 1, 0>>, <<1, 0, 0>> >>, << <<1, 0, 0>>, <<1, 1, 0>> >>}

\* all_combined.py lines 54-64: the simulation runs on every permutation of
\* add_conflicts(pair)
SimPairs == UNION {add_conflicts(pair) : pair \in SimInputs}

\* the significance levels tried, in percent (default alpha 5, beta 10)
ErrorRates == {1, 5, 10}

\* lines 81-83
RelevanceGrades(results) == [i \in 1..Len(results) |-> results[i][1]]

\* lines 86-94: the clicks of the list credited to the given ranker;
\* search_results[click] out of range is an IndexError
ClicksInRange(results, clicks) ==
    \A i \in 1..Len(clicks) : clicks[i] >= 0 /\ clicks[i] < Len(results)

CountClicks(results, clicks, assignment) ==
    Cardinality({i \in 1..Len(clicks) :
                    (results[clicks[i] + 1][2] = 1) = (assignment = 1)})

\* a tally that leaves a tied trial out
TallyDiscardingTies(w, n_E, n_P) ==
    IF n_E = n_P THEN w
    ELSE IF n_E > n_P THEN <<w[1], w[2] + 1>>
    ELSE <<w[1] + 1, w[2]>>

\* a tally that gives a tied trial to E alone
TallyTieToE(w, n_E, n_P) ==
    IF n_E >= n_P THEN <<w[1], w[2] + 1>>
    ELSE <<w[1] + 1, w[2]>>

\* lines 96-102
Tally(w, n_E, n_P) ==
    IF n_E = n_P THEN <<w[1] + 1, w[2] + 1>>
    ELSE IF n_E > n_P THEN <<w[1], w[2] + 1>>
    ELSE <<w[1] + 1, w[2]>>

\* all_combined.py lines 61-64: interleaving_simulation(permutation,
\* n_simulations, interleaving_f, click_model_f, length_interleaving);
\* power_analysis.py line 76
SimInit ==
    /\ ranking_pair \in SimPairs
    /\ max_interleav = length_interleaving
    /\ interleaving_func \in {"td_interleaving", "prob_interleaving"}
    /\ caller = "interleaving_simulation"
    /\ il = NoLocals
    /\ k \in 0..MaxTrials
    /\ trial = 0 /\ wins = <<0, 0>>
    /\ search_results = NoValue /\ clicked = NoValue
    /\ n_E_click = 0 /\ n_P_click = 0 /\ p = NoValue
    /\ sample_size = NoValue
    /\ outcomes = [E |-> 0, P |-> 0, T |-> 0]
    /\ pc = "sim_loop"
    /\ err = "none"
    /\ BinsIdle /\ CMIdle

\* lines 77-79: the next iteration calls interleaving_func(pair,
\* length_interleaving); the locals of the previous iteration are dead
SimCall ==
    /\ pc = "sim_loop"
    /\ trial < k
    /\ IF interleaving_func = "td_interleaving"
       THEN il' = TDLocals /\ pc' = "td_loop"
       ELSE il' = ProbLocals(ranking_pair) /\ pc' = "prob_loop"
    /\ search_results' = NoValue /\ clicked' = NoValue
    /\ n_E_click' = 0 /\ n_P_click' = 0
    /\ UNCHANGED <<err, caller, interleaving_func, ranking_pair, max_interleav>>
    /\ UNCHANGED <<k, trial, wins, p, sample_size, outcomes>>
    /\ UNCHANGED <<binvars, cmvars>>

\* lines 81-102: the rest of the iteration, from the click model's answer to
\* the update of wins
SimTally ==
    /\ pc = "sim_clicks"
    /\ \E c \in get_clicks(RelevanceGrades(search_results)) :
           /\ clicked' = c
           /\ IF ClicksInRange(search_results, c)
              THEN /\ n_E_click' = CountClicks(search_results, c, 1)
                   /\ n_P_click' = CountClicks(search_results, c, 0)
                   /\ wins' = Tally(wins, n_E_click', n_P_click')
                   /\ outcomes' =
                        IF n_E_click' > n_P_click'
                        THEN [outcomes EXCEPT !.E = @ + 1]
                        ELSE IF n_P_click' > n_E_click'
                        THEN [outcomes EXCEPT !.P = @ + 1]
                        ELSE [outcomes EXCEPT !.T = @ + 1]
                   /\ trial' = trial + 1
                   /\ pc' = "sim_loop"
                   /\ UNCHANGED err
              ELSE /\ pc' = "error" /\ err' = "IndexError"
                   /\ UNCHANGED <<n_E_click, n_P_click, wins, outcomes, trial>>
    /\ UNCHANGED <<ilvars, k, search_results, p, sample_size>>
    /\ UNCHANGED <<binvars, cmvars>>

\* lines 104-105: p = wins[1] / float(wins[0] + wins[1]), kept as the exact
\* fraction; a zero denominator is a ZeroDivisionError
SimReturn ==
    /\ pc = "sim_loop"
    /\ trial >= k
    /\ IF wins[1] + wins[2] = 0
       THEN pc' = "error" /\ err' = "ZeroDivisionError" /\ UNCHANGED p
       ELSE pc' = "sim_return" /\ p' = <<wins[2], wins[1] + wins[2]>>
            /\ UNCHANGED err
    /\ UNCHANGED <<ilvars, k, trial, wins, search_results, clicked, n_E_click,
                   n_P_click, sample_size, outcomes>>
    /\ UNCHANGED <<binvars, cmvars>>

(* ----------------------------------------------------- compute_sample_size *)

\* the undefined sample size
Sentinel == -1

\* a computation without the test of line 129
compute_sample_size_unguarded(p1, alpha, beta) == 1..MaxSample

\* lines 126-137: the results possible for the proportion p1 = <<a, b>>.
\* diff = p1 - 0.5 is zero exactly when 2a = b.  Otherwise the result is the
\* ceiling of a positive real (for alpha, beta below one half): a positive
\* integer, whose magnitude the model leaves open up to MaxSample.
compute_sample_size(p1, alpha, beta) ==
    IF 2 * p1[1] - p1[2] = 0 THEN {Sentinel} ELSE 1..MaxSample

\* all_combined.py lines 65-66: the sample size of the returned proportion
ComputeSampleSize ==
    /\ pc = "sim_return"
    /\ \E alpha \in ErrorRates, beta \in ErrorRates :
           sample_size' \in compute_sample_size(p, alpha, beta)
    /\ pc' = "done"
    /\ UNCHANGED <<err, ilvars, k, trial, wins, search_results, clicked,
                   n_E_click, n_P_click, p, outcomes>>
    /\ UNCHANGED <<binvars, cmvars>>

(* ------------------------------------------------------------ process_bins *)

\* all_combined.py lines 65-66: a bin holds results of compute_sample_size
BinValues == {Sentinel} \cup (1..MaxSample)

\* the bins of at most n entries
BinsUpTo(n) == UNION {[1..len -> BinValues] : len \in 0..n}

\* list.sort()
RECURSIVE SortInsert(_, _)
SortInsert(sorted, x) ==
    IF sorted = <<>> THEN <<x>>
    ELSE IF x < Head(sorted) THEN <<x>> \o sorted
    ELSE <<Head(sorted)>> \o SortInsert(Tail(sorted), x)

RECURSIVE Sort(_)
Sort(lst) ==
    IF lst = <<>> THEN <<>>
    ELSE SortInsert(Sort(SubSeq(lst, 1, Len(lst) - 1)), lst[Len(lst)])

\* list.reverse()
Reverse(lst) == [i \in 1..Len(lst) |-> lst[Len(lst) + 1 - i]]

\* a strip that removes nothing
KeepSentinels(cur) == [cur |-> cur, err |-> "none"]

\* lines 195-196: "while cur[-1] == -1: cur.pop()"; cur[-1] of an empty list
\* is an IndexError
RECURSIVE PopSentinels(_)
PopSentinels(cur) ==
    IF cur = <<>> THEN [cur |-> cur, err |-> "IndexError"]
    ELSE IF cur[Len(cur)] = Sentinel
    THEN PopSentinels(SubSeq(cur, 1, Len(cur) - 1))
    ELSE [cur |-> cur, err |-> "none"]

\* a sum that is not halved
NotHalved(x) == x

\* math.ceil(x / 2.0) of an integer x
CeilHalf(x) == (x + 1) \div 2

\* lines 199-200: d, m = divmod(len(cur), 2);
\* median = ceil((cur[d] + cur[-int(not bool(m))]) / 2.0): the second index is
\* -1 (the last entry) when the length is even and -0 = 0 (the first entry)
\* when it is odd
Median(cur) ==
    LET d == Len(cur) \div 2
        m == Len(cur) % 2
        second == IF m = 0 THEN cur[Len(cur)] ELSE cur[1]
    IN  CeilHalf(cur[d + 1] + second)

\* lines 201-202: min(cur), max(cur) of the sorted list
Summary(cur) ==
    [min |-> cur[1], max |-> cur[Len(cur)], median |-> Median(cur),
     has_info |-> TRUE]

\* lines 189-202: one iteration of "for cur in bins": the list as the
\* iteration leaves it, the summary appended to out, the exception raised
ProcessBin(cur) ==
    IF cur = <<>>
    THEN [cur |-> cur, info |-> [has_info |-> FALSE], err |-> "none"]
    ELSE LET stripped == PopSentinels(Reverse(Sort(cur)))
         IN  IF stripped.err # "none"
             THEN [cur |-> stripped.cur, info |-> [has_info |-> FALSE],
                   err |-> stripped.err]
             ELSE [cur |-> Reverse(stripped.cur),
                   info |-> Summary(Reverse(stripped.cur)), err |-> "none"]

\* plot_bin_info, lines 260-263: the lengths of the error bars below and above
\* the median of a summary with has_info
ErrorBars(info) == <<info.median - info.min, info.max - info.median>>

\* process_bins(bins) on a list of two bins
BinsInit ==
    /\ \E first \in BinsUpTo(MaxEntries) :
           \E second \in BinsUpTo(MaxEntries - Len(first)) :
               bins = <<first, second>>
    /\ bins_in = bins
    /\ out = <<>>
    /\ bin_index = 0
    /\ pc = "bins_loop"
    /\ err = "none"
    /\ ILIdle /\ SimIdle /\ CMIdle

\* lines 188-202
BinsStep ==
    /\ pc = "bins_loop"
    /\ bin_index < Len(bins)
    /\ LET r == ProcessBin(bins[bin_index + 1])
       IN  /\ bins' = [bins EXCEPT ![bin_index + 1] = r.cur]
           /\ err' = r.err
           /\ IF r.err = "none"
              THEN /\ out' = Append(out, r.info)
                   /\ bin_index' = bin_index + 1
                   /\ pc' = "bins_loop"
              ELSE /\ pc' = "error"
                   /\ UNCHANGED <<out, bin_index>>
    /\ UNCHANGED <<bins_in, ilvars, simvars, cmvars>>

\* line 203
BinsReturn ==
    /\ pc = "bins_loop"
    /\ bin_index >= Len(bins)
    /\ pc' = "done"
    /\ UNCHANGED <<err, binvars, ilvars, simvars, cmvars>>

(* ------------------------------------------------------- specifications *)

\* either interleaving function, called on every ranking pair and depth
Init == TDInit \/ ProbInit

Next == TDRound \/ TDReturn \/ ProbRound \/ ProbReturn

Spec == Init /\ [][Next]_vars

\* the simulation harness on the sample ranking pairs, followed by the sample
\* size of its result
SimNext ==
    \/ SimCall \/ TDRound \/ TDReturn \/ ProbRound \/ ProbReturn
    \/ SimTally \/ SimReturn \/ ComputeSampleSize

SpecSim == SimInit /\ [][SimNext]_vars

\* process_bins on bins of sample sizes
BinsNext == BinsStep \/ BinsReturn

SpecBins == BinsInit /\ [][BinsNext]_vars

\* a click model: constructed, trained on a log, asked for probabilities and
\* clicks before or after the training
CMNext == RCMLearn \/ PBMLearn \/ PBMLearnPass \/ GetP \/ GetClicks

SpecCM == CMInit /\ [][CMNext]_vars

(* ------------------------------------------------------------ properties *)

IsTD == interleaving_func = "td_interleaving"
IsProb == interleaving_func = "prob_interleaving"
Interleaving == il # NoLocals

\* the history src describes the emitted list: entry i of interleaved is the
\* document of rank index src[i][2] of the ranking of side src[i][1], whose
\* duplicate id is src[i][3]
SrcOfInterleaved ==
    /\ Len(il.src) = Len(il.interleaved)
    /\ \A i \in 1..Len(il.src) :
           LET doc == ranking_pair[il.src[i][1] + 1][il.src[i][2] + 1]
           IN  doc[2] = il.src[i][3] /\ doc[1] = il.interleaved[i][1]

\* a round of td_interleaving passed over a document without emitting it
TDSkipped == il.p_pointer + il.e_pointer > Len(il.interleaved)

\* C1: in every state of td_interleaving and prob_interleaving, no positive
\* duplicate id is carried by two documents of the emitted list.
C1_NoDuplicateEmittedTwice ==
    Interleaving =>
        /\ SrcOfInterleaved
        /\ \A i, j \in 1..Len(il.src) :
               (i < j /\ il.src[i][3] > 0) => il.src[i][3] # il.src[j][3]

\* C1 witness: team-draft returned a list holding a shared document after the
\* other side skipped its counterpart.
C1_Witness ==
    /\ pc = "done" /\ IsTD /\ TDSkipped
    /\ \E i \in 1..Len(il.src) : il.src[i][3] > 0

\* C2: td_interleaving with 1 <= depth <= L never raises, emits one document in
\* every round (so it ends after depth rounds) and returns exactly depth entries.
C2_TDReturnsDepth ==
    (IsTD /\ max_interleav <= Len(ranking_p)) =>
        /\ err = "none"
        /\ il.rounds = Len(il.interleaved)
        /\ Len(il.interleaved) <= max_interleav
        /\ pc = "done" => Len(il.interleaved) = max_interleav

\* C2 witness: depth 3 on rankings of length 3 with shared documents, one of
\* which was skipped, returned 3 entries.
C2_Witness ==
    /\ pc = "done" /\ IsTD /\ max_interleav = 3 /\ Len(ranking_p) = 3
    /\ TDSkipped /\ Len(il.interleaved) = 3

\* C3: prob_interleaving with 1 <= depth <= L never raises, emits one document
\* in every round, never starts a round with both index lists empty and returns
\* exactly depth entries.
C3_ProbReturnsDepth ==
    (IsProb /\ max_interleav <= Len(ranking_p)) =>
        /\ err = "none"
        /\ il.rounds = Len(il.interleaved)
        /\ Len(il.interleaved) <= max_interleav
        /\ (pc = "prob_loop" /\ ProbContinues(il, max_interleav)) =>
               Len(il.p_indices) + Len(il.e_indices) > 0
        /\ pc = "done" => Len(il.interleaved) = max_interleav

\* C3 witness: depth 3 on rankings of length 3, returned 3 entries after the
\* counterpart of an emitted shared document was removed from the other side.
C3_Witness ==
    /\ pc = "done" /\ IsProb /\ max_interleav = 3 /\ Len(ranking_p) = 3
    /\ Len(il.interleaved) = 3 /\ Len(il.found_duplicates) > 0
    /\ Len(il.p_indices) + Len(il.e_indices) < 3

\* C4: when depth exceeds the number of distinct documents, interleaving
\* raises nothing and returns the partial list of all the distinct documents.
C4_PartialListWhenExhausted ==
    (Interleaving /\ max_interleav > NumDistinct(ranking_pair)) =>
        /\ err = "none"
        /\ Len(il.interleaved) <= NumDistinct(ranking_pair)
        /\ pc = "done" => Len(il.interleaved) = NumDistinct(ranking_pair)

InSim == caller = "interleaving_simulation"

\* the simulation has returned its proportion
SimReturned == InSim /\ pc \in {"sim_return", "done"}

\* the step that tallies a trial counts it and changes wins in one of three
\* ways, by the clicks credited to E (e) and to P (q)
C5_TalliedTrial ==
    (pc = "sim_clicks" /\ pc' = "sim_loop") =>
        LET e == Cardinality({i \in 1..Len(clicked') :
                                 search_results[clicked'[i] + 1][2] = 1})
            q == Cardinality({i \in 1..Len(clicked') :
                                 search_results[clicked'[i] + 1][2] = 0})
        IN  /\ trial' = trial + 1
            /\ e > q => wins' = <<wins[1], wins[2] + 1>>
            /\ q > e => wins' = <<wins[1] + 1, wins[2]>>
            /\ e = q => wins' = <<wins[1] + 1, wins[2] + 1>>

\* C5: every trial of interleaving_simulation is counted and changes wins in
\* one of three ways: only wins[1] grows by 1 when E has strictly more clicks,
\* only wins[0] grows by 1 when P has strictly more, both grow by 1 on a tie
\* (the trial without a click included); after all k trials the returned value
\* is wins[1] / (wins[0] + wins[1]).
C5_WinsPerTrial ==
    /\ [][C5_TalliedTrial]_vars
    /\ [](SimReturned => (trial = k /\ p = <<wins[2], wins[1] + wins[2]>>))

\* C5 witness: two trials, one won by E and then one without any click, have
\* been tallied and the proportion 2/3 returned.
C5_Witness ==
    /\ SimReturned /\ trial = 2 /\ clicked = <<>>
    /\ outcomes = [E |-> 1, P |-> 0, T |-> 1]
    /\ wins = <<1, 2>> /\ p = <<2, 3>>

\* C6: after k trials with W_E wins of E and T ties the returned proportion is
\* (W_E + T/2) / k, that is p * 2k = 2 W_E + T.
C6_HalfWinPerTie ==
    SimReturned => 2 * k * p[1] = p[2] * (2 * outcomes.E + outcomes.T)

\* C7: the sample size is the sentinel whenever the proportion is exactly one
\* half, in particular whenever the two win counters ended equal, and nothing
\* was raised.
C7_SentinelAtHalf ==
    (InSim /\ pc = "done") =>
        /\ err = "none"
        /\ 2 * p[1] = p[2] => sample_size = Sentinel
        /\ wins[1] = wins[2] => sample_size = Sentinel

\* C7 witness: E won one trial and P the other, the counters ended equal and
\* the sample size is the sentinel.
C7_Witness ==
    /\ InSim /\ pc = "done" /\ outcomes = [E |-> 1, P |-> 1, T |-> 0]
    /\ wins[1] = wins[2] /\ sample_size = Sentinel

\* the entries of a bin that are sample sizes
ValidEntries(bin) == SelectSeq(bin, LAMBDA v : v # Sentinel)

\* the entry at 0-based index i of the non-empty list sorted ascending
KthSmallest(lst, i) ==
    CHOOSE v \in {lst[j] : j \in 1..Len(lst)} :
        /\ Cardinality({j \in 1..Len(lst) : lst[j] < v}) <= i
        /\ i < Cardinality({j \in 1..Len(lst) : lst[j] <= v})

\* C8: for every processed bin with n >= 1 valid entries, min and max are the
\* smallest and largest valid entry and the median is the entry at index
\* floor((n-1)/2) of the valid entries sorted ascending.
C8_MedianIsLowerCentral ==
    \A i \in 1..Len(out) :
        LET v == ValidEntries(bins_in[i])
        IN  Len(v) >= 1 =>
                /\ out[i].has_info
                /\ out[i].min = KthSmallest(v, 0)
                /\ out[i].max = KthSmallest(v, Len(v) - 1)
                /\ out[i].median = KthSmallest(v, (Len(v) - 1) \div 2)

\* C9: a bin with at least one valid entry is processed without error, its
\* summary is the one of the same bin with the sentinels removed, min and max
\* are its smallest and largest valid entry, and no reported value is the
\* sentinel.
C9_SentinelsIgnored ==
    /\ pc = "error" => ValidEntries(bins_in[bin_index + 1]) = <<>>
    /\ \A i \in 1..Len(out) :
           LET v == ValidEntries(bins_in[i])
           IN  Len(v) >= 1 =>
                   /\ out[i] = ProcessBin(v).info
                   /\ out[i].has_info
                   /\ out[i].min = KthSmallest(v, 0)
                   /\ out[i].max = KthSmallest(v, Len(v) - 1)
                   /\ Sentinel \notin {out[i].min, out[i].median, out[i].max}

\* C9 witness: a bin that held a sentinel after a valid entry, and two valid
\* entries in all, has been summarised.
C9_Witness ==
    /\ pc = "done"
    /\ \E i \in 1..Len(out) :
           /\ Len(ValidEntries(bins_in[i])) >= 2
           /\ Len(bins_in[i]) > Len(ValidEntries(bins_in[i]))
           /\ bins_in[i][1] # Sentinel
           /\ out[i].has_info

\* C10: process_bins raises nothing and reports has_info = False for every bin
\* without a valid entry, the empty one and the one holding only sentinels.
C10_NoDataMarker ==
    /\ err = "none"
    /\ \A i \in 1..Len(out) :
           ValidEntries(bins_in[i]) = <<>> => out[i] = [has_info |-> FALSE]

IsRCM == self.class = "RCM"
IsPBM == self.class = "PBM"

\* get_p or get_clicks has been called and has answered
Answered == pc = "cm_answered"

\* C11: a call of get_p or get_clicks on a click model whose learn has not
\* completed ends in an error; it is never answered from the parameters the
\* constructor left (a random rho, the empty gammas).
C11_UntrainedFailsFast ==
    (Answered /\ ~answer.trained) => err # "none"

\* the log holds a click item that no query item of its session precedes
OrphanClick(db) ==
    \E i \in 1..Len(db) :
        /\ db[i].a = "c"
        /\ \A j \in 1..(i - 1) : ~(db[j].a = "q" /\ db[j].id = db[i].id)

\* C12: learn (RCM.learn, PBM.learn) never returns normally on a log that holds
\* a click without a preceding query of its session: it raises.
C12_OrphanClickSurfaced ==
    pc = "cm_trained" => ~OrphanClick(database)

\* C13: PBM.get_p returns min(len(gammas), len(relevance_grades)) values, and
\* the gammas left by every pass of learn, and the values get_p computes from
\* them, lie in [0, 1].
C13_PBMProbabilities ==
    /\ (IsPBM /\ Answered /\ answer.op = "get_p") =>
           Len(answer.out) =
               Min(Len(self.gammas), Len(answer.relevance_grades))
    /\ (IsPBM /\ lrn # NoLocals /\ err = "none") =>
           (lrn.passes >= 1 =>
               \A r \in 1..Len(self.gammas) :
                   0 <= self.gammas[r] /\ self.gammas[r] <= Float(1))
    /\ (IsPBM /\ Answered /\ answer.op = "get_p" /\ answer.trained) =>
           \A i \in 1..Len(answer.out) :
               0 <= answer.out[i] /\ answer.out[i] <= Float(1)

\* C13 witness: a trained PBM with one gamma answered get_p for three
\* documents with one probability.
C13_Witness ==
    /\ IsPBM /\ Answered /\ answer.op = "get_p" /\ answer.trained
    /\ Len(self.gammas) = 1 /\ Len(answer.relevance_grades) = 3
    /\ Len(answer.out) = 1

\* C14: the result of get_clicks (RCM and PBM) lists positions of the
\* probability list in increasing order, each at most once, and whenever no
\* position has click probability 1 the empty list is one of the results
\* get_clicks can return.
C14_OneDecisionPerPosition ==
    (Answered /\ answer.op = "get_clicks") =>
        /\ \A i \in 1..Len(answer.out) :
               /\ 0 <= answer.out[i] /\ answer.out[i] < Len(answer.p)
               /\ \A j \in 1..(i - 1) : answer.out[j] < answer.out[i]
        /\ (\A i \in 1..Len(answer.p) : answer.p[i] < Float(1)) =>
               <<>> \in Clicks(self, answer.relevance_grades)

\* C14 witness: a trained model asked for the clicks on three documents
\* returned no click.
C14_Witness ==
    /\ Answered /\ answer.op = "get_clicks" /\ answer.trained
    /\ Len(answer.p) = 3 /\ answer.out = <<>>

\* the last entry of a non-empty list
Last(lst) == lst[Len(lst)]

\* a step is one round of the running interleaving function
IsRound == il'.rounds = il.rounds + 1

\* a round appended an entry to the interleaved list
Emits == Len(il'.interleaved) > Len(il.interleaved)

\* the cursor of a side of team-draft in the frame f
Cursor(f, side) == IF side = 0 THEN f.p_pointer ELSE f.e_pointer

\* the remaining positions of a side of prob_interleaving in the frame f
Remaining(f, side) == IF side = 0 THEN f.p_indices ELSE f.e_indices

\* the rank index of the document the round took from the side that acted:
\* the one before the side's cursor (team-draft), the drawn one (probabilistic)
TakenIndex ==
    IF IsTD THEN Cursor(il', il'.side) - 1 ELSE Last(il'.drawn)[2]

\* the side a round took its document from, read off the side's own state:
\* the cursor that moved (team-draft), the list that lost the drawn position
TookFrom(side) ==
    IF IsTD
    THEN /\ Cursor(il', side) > Cursor(il, side)
         /\ Cursor(il', 1 - side) = Cursor(il, 1 - side)
    ELSE /\ Last(il'.drawn)[1] = side
         /\ InList(TakenIndex, Remaining(il, side))
         /\ ~InList(TakenIndex, Remaining(il', side))

\* a round that emits appends one entry: the relevance grade of the document
\* it took and the number of the side it took it from
EmitsTakenDocument ==
    (IsRound /\ Emits) =>
        /\ il'.interleaved =
               Append(il.interleaved,
                      <<ranking_pair[il'.side + 1][TakenIndex + 1][1],
                        il'.side>>)
        /\ TookFrom(il'.side)
        /\ Last(il'.src) = <<il'.side, TakenIndex,
                             ranking_pair[il'.side + 1][TakenIndex + 1][2]>>

\* C15: every entry of the interleaved list of td_interleaving and
\* prob_interleaving is <<relevance grade, side>> of one document of the
\* ranking of that side (0 for P, 1 for E), shared documents included, and each
\* round that emits appends the grade of the document it took with the number
\* of the side it took it from.
C15_EntryOfTakenDocument ==
    /\ [](Interleaving =>
            /\ SrcOfInterleaved
            /\ \A i \in 1..Len(il.interleaved) :
                   /\ il.interleaved[i][2] \in {0, 1}
                   /\ il.interleaved[i][2] = il.src[i][1])
    /\ [][EmitsTakenDocument]_vars

\* C15 witness: a returned list holds a shared document credited to E and a
\* shared document credited to P.
C15_Witness ==
    /\ pc = "done"
    /\ \E i, j \in 1..Len(il.src) :
           /\ il.src[i][3] > 0 /\ il.interleaved[i][2] = 1
           /\ il.src[j][3] > 0 /\ il.interleaved[j][2] = 0

\* the number of entries of the interleaved list credited to a side
Picked(f, side) ==
    Cardinality({i \in 1..Len(f.interleaved) : f.interleaved[i][2] = side})

\* a round of team-draft: the side with fewer entries so far acts; with equally
\* many the coin decides, 1 for P and 0 for E; the side that acts is the one
\* whose cursor moves and the one credited with the entry of the round
FewerPicksFirst ==
    (IsTD /\ IsRound) =>
        LET p_picked == Picked(il, 0)
            e_picked == Picked(il, 1)
        IN  /\ p_picked < e_picked => il'.side = 0
            /\ p_picked > e_picked => il'.side = 1
            /\ p_picked = e_picked => (il'.side = 0 <=> il'.p_priority = 1)
            /\ il'.err = "none" => TookFrom(il'.side)
            /\ Emits => Last(il'.interleaved)[2] = il'.side

\* C16: in every round of td_interleaving the side with strictly fewer entries
\* in the interleaved list picks; when both have equally many the coin decides,
\* and in every such state that starts a round a round in which P picks and a
\* round in which E picks are both possible.  p_team and e_team count the
\* entries of the two sides.
C16_FewerPicksFirst ==
    /\ []((IsTD /\ Interleaving) =>
            /\ il.p_team = Picked(il, 0) /\ il.e_team = Picked(il, 1)
            /\ (pc = "td_loop" /\ TDContinues(il, max_interleav)
                    /\ il.p_team = il.e_team) =>
                   /\ \E c \in {0, 1} :
                          TDStep(ranking_pair, il, c).side = 0
                   /\ \E c \in {0, 1} :
                          TDStep(ranking_pair, il, c).side = 1)
    /\ [][FewerPicksFirst]_vars

\* C16 witness: team-draft returned a list whose first entry went to E on a
\* tie, whose second went to P for having fewer, and whose third went to P on
\* a tie.
C16_Witness ==
    /\ pc = "done" /\ IsTD /\ Len(il.interleaved) >= 3
    /\ il.interleaved[1][2] = 1
    /\ il.interleaved[2][2] = 0
    /\ il.interleaved[3][2] = 0

\* the positive duplicate ids of the entries a side has emitted in the frame f
ConsumedBy(f, side) ==
    {f.src[i][3] : i \in {j \in 1..Len(f.src) : f.src[j][1] = side}} \ {0}

\* a round of team-draft that ends without an exception: the acting side's
\* cursor moves forward from c to c2, the other cursor stays, every document
\* passed over carries an id the other side has emitted, an emitted document
\* is the one at rank index c2 - 1 and its id is 0 or not emitted so far, and a
\* round without an emission ends at the end of the ranking
TakesFirstUsable ==
    (IsTD /\ IsRound /\ il'.err = "none") =>
        LET side == il'.side
            ranking == ranking_pair[side + 1]
            c == Cursor(il, side)
            c2 == Cursor(il', side)
            passed == IF Emits THEN c..(c2 - 2) ELSE c..(c2 - 1)
            top_result == ranking[c2]
        IN  /\ c2 > c /\ c2 <= Len(ranking)
            /\ Cursor(il', 1 - side) = Cursor(il, 1 - side)
            /\ \A j \in passed :
                   ranking[j + 1][2] \in ConsumedBy(il, 1 - side)
            /\ Emits =>
                   /\ top_result[2] = 0
                          \/ top_result[2] \notin
                                 (ConsumedBy(il, 0) \cup ConsumedBy(il, 1))
                   /\ Last(il'.interleaved) = <<top_result[1], side>>
                   /\ Last(il'.src) = <<side, c2 - 1, top_result[2]>>
            /\ ~Emits => c2 = Len(ranking)

\* no cursor of team-draft moves backwards, in any round
CursorsAdvance ==
    (IsTD /\ IsRound) =>
        /\ il'.p_pointer >= il.p_pointer
        /\ il'.e_pointer >= il.e_pointer

\* C17: in every round of td_interleaving that ends without an exception, the
\* emitted document is the first document of the acting side, from its cursor
\* on, whose duplicate id is 0 or not yet emitted; every document the cursor
\* passes over carries an id already emitted by the other side; no cursor ever
\* moves backwards.
C17_TakesFirstUsable ==
    [][TakesFirstUsable /\ CursorsAdvance]_vars

\* C17 witness: team-draft returned a list with an entry whose rank index is
\* larger than the number of entries its side emitted before it: the side
\* passed over a document and then emitted.
C17_Witness ==
    /\ pc = "done" /\ IsTD
    /\ \E i \in 1..Len(il.src) :
           il.src[i][2] >
               Cardinality({j \in 1..(i - 1) : il.src[j][1] = il.src[i][1]})

\* a round of prob_interleaving made a draw
Draws == Len(il'.drawn) = Len(il.drawn) + 1

\* a round of prob_interleaving: with a position left on either side a draw is
\* made; the draw is from P exactly when the coin is 1 and P has a position
\* left, or E has none; the drawn position was among the remaining ones of its
\* side and is not afterwards
DrawsFromSideWithPositions ==
    (IsProb /\ IsRound) =>
        LET p_left == Len(il.p_indices) > 0
            e_left == Len(il.e_indices) > 0
        IN  /\ (p_left \/ e_left) => Draws
            /\ Draws =>
                   /\ TookFrom(0) <=> ((il'.p_priority = 1 /\ p_left)
                                           \/ ~e_left)
                   /\ TookFrom(1) <=> ~((il'.p_priority = 1 /\ p_left)
                                            \/ ~e_left)
                   /\ il'.drawn = Append(il.drawn, <<il'.side, TakenIndex>>)
                   /\ Len(Remaining(il, il'.side)) > 0
            /\ ~Draws => il'.err = "ValueError"

\* C18: in every round of prob_interleaving the draw is made from P exactly
\* when (the coin is 1 and P has a remaining position) or E has none, and from
\* E otherwise; while either side has a remaining position the round draws,
\* and from a side that has one.
C18_DrawsFromSideWithPositions ==
    [][DrawsFromSideWithPositions]_vars

\* C18 witness: after a draw from E, a round drew the last position of P
\* although the coin was 0, E having no position left.
C18_Witness ==
    /\ IsProb /\ err = "none" /\ il.rounds >= 2
    /\ il.side = 0 /\ il.p_priority = 0
    /\ \E i \in 1..Len(il.drawn) : il.drawn[i][1] = 1
    /\ Len(il.e_indices) = 0 /\ Len(il.p_indices) = 0

\* the rank index, in the ranking of a side, of the document with the positive
\* duplicate id
PositionOfId(side, duplicate_id) ==
    CHOOSE j \in 0..(Len(ranking_pair[side + 1]) - 1) :
        ranking_pair[side + 1][j + 1][2] = duplicate_id

\* the counterpart of every emitted shared document is neither among the
\* remaining positions of the other side nor among the draws made
CounterpartsGone ==
    \A i \in 1..Len(il.src) :
        il.src[i][3] > 0 =>
            LET other == 1 - il.src[i][1]
                counterpart == PositionOfId(other, il.src[i][3])
            IN  /\ ~InList(counterpart, Remaining(il, other))
                /\ ~InList(<<other, counterpart>>, il.drawn)

\* the remaining positions of a side are the positions never drawn from it
\* that are no counterpart of an emitted document of the other side, each once
RemainingPositions(side) ==
    LET indices == Remaining(il, side)
        gone == {il.drawn[i][2] :
                    i \in {j \in 1..Len(il.drawn) : il.drawn[j][1] = side}}
                \cup {PositionOfId(side, il.src[i][3]) :
                         i \in {j \in 1..Len(il.src) :
                                   il.src[j][1] = 1 - side
                                       /\ il.src[j][3] > 0}}
    IN  /\ {indices[i] : i \in 1..Len(indices)} =
               (0..(Len(ranking_pair[side + 1]) - 1)) \ gone
        /\ \A i, j \in 1..Len(indices) : i # j => indices[i] # indices[j]

\* a round of prob_interleaving that draws a document whose id is already in
\* found_duplicates appends nothing
ConsumedNotEmitted ==
    (IsProb /\ IsRound /\ Draws) =>
        LET duplicate_id == ranking_pair[il'.side + 1][TakenIndex + 1][2]
        IN  InList(duplicate_id, il.found_duplicates) =>
                il'.interleaved = il.interleaved

\* C19: in prob_interleaving no rank position of a side is drawn twice; the
\* position of the counterpart of every emitted shared document is absent from
\* the other side's remaining positions and from the draws, in every state
\* after the emission; the remaining positions of a side are exactly those
\* neither drawn nor removed as a counterpart; a round that draws a document
\* whose id is already recorded emits nothing.
C19_CounterpartNeverDrawn ==
    /\ []((IsProb /\ Interleaving) =>
            /\ \A i, j \in 1..Len(il.drawn) :
                   i # j => il.drawn[i] # il.drawn[j]
            /\ CounterpartsGone
            /\ RemainingPositions(0) /\ RemainingPositions(1))
    /\ [][ConsumedNotEmitted]_vars

\* C19 witness: prob_interleaving returned a list in which a shared document
\* was emitted and a later round drew from the other side.
C19_Witness ==
    /\ pc = "done" /\ IsProb
    /\ \E i, j \in 1..Len(il.src) :
           /\ i < j /\ il.src[i][3] > 0
           /\ il.src[j][1] = 1 - il.src[i][1]

\* the rounded gammas of the n passes up to pass m are all equal
StableAt(history, m, n) ==
    \A i \in (m - n + 1)..m : history[i] = history[m]

\* C20: PBM.learn has returned only if at least n_consecutive passes were made
\* and the rounded gammas of the last n_consecutive passes are all equal; no
\* earlier pass ended with n_consecutive equal vectors; prev_gammas is the
\* trailing window of the passes and never holds more than n_consecutive
\* vectors.
C20_ReturnsAtFirstStablePass ==
    (IsPBM /\ lrn # NoLocals) =>
        /\ lrn.passes = Len(lrn.history)
        /\ Len(lrn.prev_gammas) <= lrn.n_consecutive
        /\ lrn.prev_gammas =
               SubSeq(lrn.history,
                      lrn.passes - Min(lrn.passes, lrn.n_consecutive) + 1,
                      lrn.passes)
        /\ (pc = "cm_trained" \/ (Answered /\ answer.trained)) <=>
               lrn.convergence
        /\ lrn.convergence =>
               /\ lrn.passes >= lrn.n_consecutive
               /\ StableAt(lrn.history, lrn.passes, lrn.n_consecutive)
        /\ \A m \in lrn.n_consecutive..(lrn.passes - 1) :
               ~StableAt(lrn.history, m, lrn.n_consecutive)

\* C20 witness: learn with n_consecutive = 2 returned after three passes, the
\* first two of which differed, with two vectors kept.
C20_Witness ==
    /\ IsPBM /\ pc = "cm_trained" /\ lrn.n_consecutive = 2
    /\ lrn.passes = 3 /\ lrn.history[1] # lrn.history[2]
    /\ Len(lrn.prev_gammas) = 2

\* C21: in every state of td_interleaving the numbers of entries credited to P
\* and to E differ by at most 1; with depth <= L no round raises and every
\* round appends exactly one entry, so the function returns after exactly depth
\* rounds, and the returned list holds depth \div 2 or (depth + 1) \div 2
\* entries of each side, depth in all.
C21_BalancedTeams ==
    /\ [](IsTD =>
            /\ il.p_team = Picked(il, 0) /\ il.e_team = Picked(il, 1)
            /\ Picked(il, 0) - Picked(il, 1) \in {-1, 0, 1}
            /\ max_interleav <= Len(ranking_p) =>
                   /\ err = "none"
                   /\ il.rounds = Len(il.interleaved)
                   /\ pc = "done" =>
                          /\ il.rounds = max_interleav
                          /\ Picked(il, 0) + Picked(il, 1) = max_interleav
                          /\ \A side \in {0, 1} :
                                 Picked(il, side) \in
                                     {max_interleav \div 2,
                                      (max_interleav + 1) \div 2})
    /\ [][(IsTD /\ IsRound /\ max_interleav <= Len(ranking_p)) =>
              Len(il'.interleaved) = Len(il.interleaved) + 1]_vars

\* C21 witness: depth 3 on rankings of length 3: team-draft returned after
\* three rounds, one of which passed over a shared document, with one entry of
\* P and two of E.
C21_Witness ==
    /\ pc = "done" /\ IsTD /\ max_interleav = 3 /\ Len(ranking_p) = 3
    /\ il.rounds = 3 /\ TDSkipped
    /\ Picked(il, 0) = 1 /\ Picked(il, 1) = 2

\* C22: in interleaving_simulation, after t tallied trials of which T were
\* tied, wins[0] + wins[1] = t + T and t <= wins[0] + wins[1] <= 2t; with
\* k >= 1 no ZeroDivisionError is raised and the returned proportion
\* wins[1] / (wins[0] + wins[1]) has a nonzero denominator, lies in [0, 1] and
\* is one half exactly when wins[0] = wins[1]; with k = 0 nothing is returned
\* and the run can only end in the ZeroDivisionError.
C22_WinsBoundTrials ==
    InSim =>
        /\ outcomes.E + outcomes.P + outcomes.T = trial
        /\ wins[1] + wins[2] = trial + outcomes.T
        /\ trial <= wins[1] + wins[2] /\ wins[1] + wins[2] <= 2 * trial
        /\ trial <= k
        /\ k >= 1 =>
               /\ err # "ZeroDivisionError"
               /\ SimReturned =>
                      /\ p[2] = wins[1] + wins[2] /\ p[2] > 0
                      /\ 0 <= p[1] /\ p[1] <= p[2]
                      /\ (2 * p[1] = p[2]) <=> (wins[1] = wins[2])
        /\ k = 0 =>
               /\ ~SimReturned
               /\ pc \in {"sim_loop", "error"}
               /\ pc = "error" => err = "ZeroDivisionError"

\* C22 witness: two trials, both tied, were tallied: the counters sum to twice
\* the number of trials and the proportion one half was returned.
C22_Witness ==
    /\ SimReturned /\ k = 2 /\ trial = 2
    /\ outcomes = [E |-> 0, P |-> 0, T |-> 2]
    /\ wins = <<2, 2>> /\ p = <<2, 4>>

\* the interleaved results whose relevance sequence is relevance_grades, under
\* every attribution of the entries
ResultsOf(relevance_grades) ==
    {[i \in 1..Len(relevance_grades) |-> <<relevance_grades[i], credit[i]>>] :
        credit \in [1..Len(relevance_grades) -> {0, 1}]}

\* C23: every list returned by get_clicks of RCM and PBM for a relevance
\* sequence holds indices of that sequence, 0 <= index < its length, in
\* strictly increasing order; it is one of the lists the simulation's tally
\* is run on; and for every interleaved result with that relevance sequence
\* the tally reads only positions of the result and counts as many clicks for
\* E and P together as there are distinct clicked positions.
C23_ClicksIndexResult ==
    (Answered /\ answer.op = "get_clicks") =>
        LET grades == answer.relevance_grades
            clicks == answer.out
            positions == {clicks[i] : i \in 1..Len(clicks)}
        IN  /\ \A i \in 1..Len(clicks) :
                   0 <= clicks[i] /\ clicks[i] < Len(grades)
            /\ \A i, j \in 1..Len(clicks) : i < j => clicks[i] < clicks[j]
            /\ clicks \in get_clicks(grades)
            /\ \A results \in ResultsOf(grades) :
                   /\ RelevanceGrades(results) = grades
                   /\ ClicksInRange(results, clicks)
                   /\ \A i \in 1..Len(clicks) :
                          clicks[i] + 1 \in DOMAIN results
                   /\ CountClicks(results, clicks, 1)
                          + CountClicks(results, clicks, 0)
                              = Cardinality(positions)

\* C23 witness: a PBM trained on two ranks was asked for the clicks on one
\* document and returned its index.
C23_Witness ==
    /\ Answered /\ answer.op = "get_clicks" /\ answer.trained
    /\ IsPBM /\ Len(self.gammas) = 2
    /\ answer.relevance_grades = <<1>> /\ answer.out = <<0>>

\* C24: every summary of process_bins with has_info = True has
\* min <= median <= max, so neither error bar plot_bin_info computes from it
\* is negative.
C24_MedianWithinRange ==
    \A i \in 1..Len(out) :
        out[i].has_info =>
            /\ out[i].min <= out[i].median
            /\ out[i].median <= out[i].max
            /\ ErrorBars(out[i])[1] >= 0
            /\ ErrorBars(out[i])[2] >= 0

\* C24 witness: a bin of three different sample sizes and a sentinel has been
\* summarised with its median strictly between min and max.
C24_Witness ==
    /\ pc = "done"
    /\ \E i \in 1..Len(out) :
           /\ out[i].has_info
           /\ Len(bins_in[i]) > Len(ValidEntries(bins_in[i]))
           /\ out[i].min < out[i].median /\ out[i].median < out[i].max

====
